---- MODULE Spec2Model ----
(***************************************************************************)
(* transmit_queue<Index> of maidsafe::crux::detail                         *)
(* (include/maidsafe/crux/detail/transmit_queue.hpp).                      *)
(*                                                                         *)
(* The queue keeps the datagrams that were sent and not yet acknowledged   *)
(* in a std::map ordered by Index, drives the step of entries.begin()      *)
(* from one timer, and completes every entry through its handler.          *)
(*                                                                         *)
(* The state is the queue object (entries, timer, shutdown_indicator)      *)
(* together with its environment: the step continuations that have been    *)
(* handed out and not yet called, and the tasks posted to the io_service.  *)
(* Every push call is identified by its ordinal number (its id), which     *)
(* stands for the pair of closures (step, handler) passed to that call.    *)
(***************************************************************************)
EXTENDS Naturals, Sequences, FiniteSets, Bags, TLC

(***************************************************************************)
(* Bounds of the model.                                                    *)
(***************************************************************************)
MaxPush == 2

MaxSteps == 2

MaxIndex == 2

Index == 1..MaxIndex

Ids == 1..MaxPush

BufferSizes == {1, 2}

BytesTransferred == {3}

(***************************************************************************)
(* boost::system::error_code values seen by the handlers.                  *)
(***************************************************************************)
Success == "success"

operation_aborted == "operation_aborted"

already_started == "already_started"

transport_error == "transport_error"

StepErrors == {Success, transport_error}

initial_roundtrip_time == 1

VARIABLES
    entries,             \* std::map<index_type, shared_ptr<entry_type>>
    timer,               \* detail::timer: [running, period]
    shutdown_indicator,  \* TRUE while the shared_ptr<none_t> is non-null
    inflight,            \* bag of entries whose step holds an uncalled continuation
    posted,              \* tasks posted to the io_service, in FIFO order
    calls,               \* history: the push calls made so far, by id
    steps,               \* history: number of invocations of each entry's step
    handled,             \* history: number of invocations of each call's handler
    result,              \* history: the error code reported by each entry's last
                         \* continuation that found the queue alive
    last                 \* history: the effects of the last operation, in code order

vars == <<entries, timer, shutdown_indicator, inflight, posted,
          calls, steps, handled, result, last>>

(***************************************************************************)
(* Effects recorded in `last`, in the order the code performs them.        *)
(***************************************************************************)
EvCall(op, arg) == <<op, arg>>

EvInsert(index) == <<"insert", index>>

EvErase(index) == <<"erase", index>>

EvTimerStop == <<"timer.stop", 0>>

EvTimerStart(period) == <<"timer.start", period>>

EvStep(id) == <<"step", id>>

EvHandler(id, ec, n) == <<"handler", id, ec, n>>

EvPost(id, ec, n) == <<"post", id, ec, n>>

(***************************************************************************)
(* Faulty variant of begin: the entry with the largest key.                *)
(***************************************************************************)
begin_is_last(es) == CHOOSE i \in DOMAIN es : \A j \in DOMAIN es : i >= j

(***************************************************************************)
(* entries.begin(): the entry with the smallest key.                       *)
(***************************************************************************)
begin(es) == CHOOSE i \in DOMAIN es : \A j \in DOMAIN es : i <= j

erase(es, index) == [i \in DOMAIN es \ {index} |-> es[i]]

empty == DOMAIN entries = {}

size == Cardinality(DOMAIN entries)

(***************************************************************************)
(* detail::timer: set_period, start and stop; the tick callback is called  *)
(* periodically while the timer is started.                                *)
(***************************************************************************)
timer_set_period(t, period) == [t EXCEPT !.period = period]

timer_start(t) == [t EXCEPT !.running = TRUE]

timer_stop(t) == [t EXCEPT !.running = FALSE]

timer_ticks(t) == t.running

TotalSteps == LET RECURSIVE Sum(_)
                  Sum(n) == IF n = 0 THEN 0 ELSE steps[n] + Sum(n - 1)
              IN  Sum(MaxPush)

Init ==
    /\ entries = << >>
    /\ timer = [running |-> FALSE, period |-> 0]
    /\ shutdown_indicator = TRUE
    /\ inflight = EmptyBag
    /\ posted = << >>
    /\ calls = << >>
    /\ steps = [id \in Ids |-> 0]
    /\ handled = [id \in Ids |-> 0]
    /\ result = [id \in Ids |-> "none"]
    /\ last = << >>

(***************************************************************************)
(* start_step(entry_i): the entry's step is invoked with a continuation    *)
(* that holds the entry and a weak reference to the shutdown indicator.    *)
(***************************************************************************)
start_step(entry) ==
    /\ steps' = [steps EXCEPT ![entry.id] = @ + 1]
    /\ inflight' = inflight (+) SetToBag({entry})

(***************************************************************************)
(* Faulty variant of finalizes: the shutdown guard is not consulted.       *)
(***************************************************************************)
finalizes_on_error_only(error) == error # Success

(***************************************************************************)
(* Line 174: the continuation hands the result to the handler when the     *)
(* weak reference no longer locks or the step reported an error.           *)
(***************************************************************************)
finalizes(error) == ~shutdown_indicator \/ error # Success

(***************************************************************************)
(* Faulty variant of Continuation: after handing an error to the handler   *)
(* the continuation restarts the timer as it does after a success.         *)
(***************************************************************************)
Continuation_retries_on_error(entry, error, bytes) ==
    /\ BagIn(entry, inflight)
    /\ inflight' = inflight (-) SetToBag({entry})
    /\ result' = IF shutdown_indicator THEN [result EXCEPT ![entry.id] = error] ELSE result
    /\ IF finalizes(error)
       THEN /\ handled' = [handled EXCEPT ![entry.id] = @ + 1]
            /\ timer' = IF shutdown_indicator
                        THEN timer_start(timer_set_period(timer, entry.period))
                        ELSE timer
            /\ last' = <<EvCall("continuation", entry.id),
                         EvHandler(entry.id, error, bytes)>>
       ELSE /\ timer' = timer_start(timer_set_period(timer, entry.period))
            /\ handled' = handled
            /\ last' = <<EvCall("continuation", entry.id),
                         EvTimerStart(entry.period)>>
    /\ UNCHANGED <<entries, shutdown_indicator, posted, calls, steps>>

(***************************************************************************)
(* The continuation of a step is called with (error, bytes_transferred).   *)
(***************************************************************************)
Continuation(entry, error, bytes) ==
    /\ BagIn(entry, inflight)
    /\ inflight' = inflight (-) SetToBag({entry})
    /\ result' = IF shutdown_indicator THEN [result EXCEPT ![entry.id] = error] ELSE result
    /\ IF finalizes(error)
       THEN /\ handled' = [handled EXCEPT ![entry.id] = @ + 1]
            /\ timer' = timer
            /\ last' = <<EvCall("continuation", entry.id),
                         EvHandler(entry.id, error, bytes)>>
       ELSE /\ timer' = timer_start(timer_set_period(timer, entry.period))
            /\ handled' = handled
            /\ last' = <<EvCall("continuation", entry.id),
                         EvTimerStart(entry.period)>>
    /\ UNCHANGED <<entries, shutdown_indicator, posted, calls, steps>>

(***************************************************************************)
(* Faulty variant of reject: the early return is missing, so the fields of *)
(* the entry found by insert are overwritten with those of the new call.   *)
(***************************************************************************)
reject_overwrites(id, index, entry) ==
    /\ calls' = Append(calls, [inserted |-> FALSE])
    /\ posted' = Append(posted, EvHandler(id, already_started, 0))
    /\ last' = <<EvCall("push", index), EvPost(id, already_started, 0)>>
    /\ entries' = [entries EXCEPT ![index] = entry]
    /\ UNCHANGED <<steps, inflight>>

(***************************************************************************)
(* Lines 149-153: insert found the index in the table; the handler of the  *)
(* new call is posted with already_started and push returns.               *)
(***************************************************************************)
reject(id, index, entry) ==
    /\ calls' = Append(calls, [inserted |-> FALSE])
    /\ posted' = Append(posted, EvHandler(id, already_started, 0))
    /\ last' = <<EvCall("push", index), EvPost(id, already_started, 0)>>
    /\ UNCHANGED <<entries, steps, inflight>>

(***************************************************************************)
(* push(index, buffer_size, step, handler)                                 *)
(***************************************************************************)
push(index, buffer_size) ==
    /\ Len(calls) < MaxPush
    /\ LET id == Len(calls) + 1
           was_empty == empty
           entry == [id |-> id, buffer_size |-> buffer_size,
                     period |-> initial_roundtrip_time]
       IN  IF index \in DOMAIN entries
           THEN reject(id, index, entry)
           ELSE /\ calls' = Append(calls, [inserted |-> TRUE])
                /\ entries' = (index :> entry) @@ entries
                /\ posted' = posted
                /\ IF was_empty
                   THEN /\ start_step(entry)
                        /\ last' = <<EvCall("push", index), EvInsert(index), EvStep(id)>>
                   ELSE /\ UNCHANGED <<steps, inflight>>
                        /\ last' = <<EvCall("push", index), EvInsert(index)>>
    /\ UNCHANGED <<timer, shutdown_indicator, handled, result>>

(***************************************************************************)
(* Faulty variant of ack_events: the handler is invoked right after the    *)
(* erase, before the timer is stopped and the next head is started.        *)
(***************************************************************************)
ack_events_handler_first(index, entry, is_active, rest) ==
    <<EvCall("apply_ack", index), EvErase(index),
      EvHandler(entry.id, Success, entry.buffer_size)>>
        \o (IF is_active THEN <<EvTimerStop>> ELSE << >>)
        \o (IF is_active /\ DOMAIN rest # {}
            THEN <<EvStep(rest[begin(rest)].id)>> ELSE << >>)

(***************************************************************************)
(* Lines 109-119: what apply_ack does to an entry it found, in order.      *)
(***************************************************************************)
ack_events(index, entry, is_active, rest) ==
    <<EvCall("apply_ack", index), EvErase(index)>>
        \o (IF is_active THEN <<EvTimerStop>> ELSE << >>)
        \o (IF is_active /\ DOMAIN rest # {}
            THEN <<EvStep(rest[begin(rest)].id)>> ELSE << >>)
        \o <<EvHandler(entry.id, Success, entry.buffer_size)>>

(***************************************************************************)
(* Faulty variant of apply_ack: the timer is stopped before the index is   *)
(* looked up.                                                              *)
(***************************************************************************)
apply_ack_stops_timer(index) ==
    IF index \notin DOMAIN entries
    THEN /\ last' = <<EvCall("apply_ack", index)>>
         /\ timer' = timer_stop(timer)
         /\ UNCHANGED <<entries, shutdown_indicator, inflight, posted,
                        calls, steps, handled, result>>
    ELSE LET is_active == index = begin(entries)
             entry == entries[index]
             rest == erase(entries, index)
         IN  /\ entries' = rest
             /\ handled' = [handled EXCEPT ![entry.id] = @ + 1]
             /\ last' = ack_events(index, entry, is_active, rest)
             /\ timer' = timer_stop(timer)
             /\ IF is_active /\ DOMAIN rest # {}
                THEN start_step(rest[begin(rest)])
                ELSE UNCHANGED <<steps, inflight>>
             /\ UNCHANGED <<shutdown_indicator, posted, calls, result>>

(***************************************************************************)
(* Faulty variant of apply_ack: every acked entry is treated as the head.  *)
(***************************************************************************)
apply_ack_always_active(index) ==
    IF index \notin DOMAIN entries
    THEN /\ last' = <<EvCall("apply_ack", index)>>
         /\ UNCHANGED <<entries, timer, shutdown_indicator, inflight, posted,
                        calls, steps, handled, result>>
    ELSE LET entry == entries[index]
             rest == erase(entries, index)
         IN  /\ entries' = rest
             /\ timer' = timer_stop(timer)
             /\ IF DOMAIN rest # {}
                THEN start_step(rest[begin(rest)])
                ELSE UNCHANGED <<steps, inflight>>
             /\ handled' = [handled EXCEPT ![entry.id] = @ + 1]
             /\ last' = ack_events(index, entry, TRUE, rest)
             /\ UNCHANGED <<shutdown_indicator, posted, calls, result>>

(***************************************************************************)
(* apply_ack(index)                                                        *)
(***************************************************************************)
apply_ack(index) ==
    IF index \notin DOMAIN entries
    THEN /\ last' = <<EvCall("apply_ack", index)>>
         /\ UNCHANGED <<entries, timer, shutdown_indicator, inflight, posted,
                        calls, steps, handled, result>>
    ELSE LET is_active == index = begin(entries)
             entry == entries[index]
             rest == erase(entries, index)
         IN  /\ entries' = rest
             /\ IF is_active
                THEN /\ timer' = timer_stop(timer)
                     /\ IF DOMAIN rest # {}
                        THEN start_step(rest[begin(rest)])
                        ELSE UNCHANGED <<steps, inflight>>
                ELSE UNCHANGED <<timer, steps, inflight>>
             /\ handled' = [handled EXCEPT ![entry.id] = @ + 1]
             /\ last' = ack_events(index, entry, is_active, rest)
             /\ UNCHANGED <<shutdown_indicator, posted, calls, result>>

(***************************************************************************)
(* Faulty variant of handler_sees: the handler runs before the erase.      *)
(***************************************************************************)
handler_sees_acked(es, index) == es

(***************************************************************************)
(* The table a handler called by apply_ack(index) finds when it calls      *)
(* back into the queue: the handler is called at line 119, after the erase *)
(* of line 109.                                                            *)
(***************************************************************************)
handler_sees(es, index) == erase(es, index)

(***************************************************************************)
(* apply_ack(index) where the handler it calls at line 119 itself calls    *)
(* push(pushed, buffer_size, step, handler) before it returns.             *)
(***************************************************************************)
apply_ack_handler_pushes(index, pushed, buffer_size) ==
    /\ index \in DOMAIN entries
    /\ Len(calls) < MaxPush
    /\ LET is_active == index = begin(entries)
           acked == entries[index]
           rest == erase(entries, index)
           promoted == is_active /\ DOMAIN rest # {}
           seen == handler_sees(entries, index)
           was_empty == DOMAIN seen = {}
           id == Len(calls) + 1
           entry == [id |-> id, buffer_size |-> buffer_size,
                     period |-> initial_roundtrip_time]
       IN  /\ timer' = IF is_active THEN timer_stop(timer) ELSE timer
           /\ handled' = [handled EXCEPT ![acked.id] = @ + 1]
           /\ IF pushed \in DOMAIN seen
              THEN /\ calls' = Append(calls, [inserted |-> FALSE])
                   /\ entries' = rest
                   /\ posted' = Append(posted, EvHandler(id, already_started, 0))
                   /\ IF promoted
                      THEN start_step(rest[begin(rest)])
                      ELSE UNCHANGED <<steps, inflight>>
                   /\ last' = <<EvCall("apply_ack, handler pushes", index)>>
                                  \o Tail(ack_events(index, acked, is_active, rest))
                                  \o <<EvCall("push", pushed),
                                       EvPost(id, already_started, 0)>>
              ELSE /\ calls' = Append(calls, [inserted |-> TRUE])
                   /\ entries' = (pushed :> entry) @@ rest
                   /\ posted' = posted
                   /\ IF promoted
                      THEN start_step(rest[begin(rest)])
                      ELSE IF was_empty
                           THEN start_step(entry)
                           ELSE UNCHANGED <<steps, inflight>>
                   /\ last' = <<EvCall("apply_ack, handler pushes", index)>>
                                  \o Tail(ack_events(index, acked, is_active, rest))
                                  \o <<EvCall("push", pushed), EvInsert(pushed)>>
                                  \o (IF was_empty THEN <<EvStep(id)>> ELSE << >>)
    /\ UNCHANGED <<shutdown_indicator, result>>

(***************************************************************************)
(* Faulty variant of cancellations: the moved map is walked from its       *)
(* largest index down to its smallest.                                     *)
(***************************************************************************)
RECURSIVE cancellations_descending(_)
cancellations_descending(es) ==
    IF DOMAIN es = {}
    THEN << >>
    ELSE LET back == CHOOSE i \in DOMAIN es : \A j \in DOMAIN es : j <= i
             entry == es[back]
         IN  <<EvHandler(entry.id, operation_aborted, entry.buffer_size)>>
                 \o cancellations_descending(erase(es, back))

(***************************************************************************)
(* The cancellations shutdown posts: one per entry of the moved map, in    *)
(* the map's iteration order.                                              *)
(***************************************************************************)
RECURSIVE cancellations(_)
cancellations(es) ==
    IF DOMAIN es = {}
    THEN << >>
    ELSE LET entry == es[begin(es)]
         IN  <<EvHandler(entry.id, operation_aborted, entry.buffer_size)>>
                 \o cancellations(erase(es, begin(es)))

(***************************************************************************)
(* Faulty variant of shutdown: the entries are cleared without posting     *)
(* their cancellations.                                                    *)
(***************************************************************************)
shutdown_clears ==
    /\ shutdown_indicator' = FALSE
    /\ timer' = timer_stop(timer)
    /\ entries' = << >>
    /\ last' = <<EvCall("shutdown", 0), EvTimerStop>>
    /\ UNCHANGED <<posted, inflight, calls, steps, handled, result>>

(***************************************************************************)
(* Faulty variant of shutdown: the cancellations are posted for a copy of  *)
(* the table, which keeps its entries.                                     *)
(***************************************************************************)
shutdown_keeps_entries ==
    /\ shutdown_indicator' = FALSE
    /\ timer' = timer_stop(timer)
    /\ entries' = entries
    /\ posted' = posted \o cancellations(entries)
    /\ last' = <<EvCall("shutdown", 0), EvTimerStop>>
                   \o [k \in 1..Len(cancellations(entries)) |->
                          LET t == cancellations(entries)[k]
                          IN  EvPost(t[2], t[3], t[4])]
    /\ UNCHANGED <<inflight, calls, steps, handled, result>>

(***************************************************************************)
(* shutdown()                                                              *)
(***************************************************************************)
shutdown ==
    /\ shutdown_indicator' = FALSE
    /\ timer' = timer_stop(timer)
    /\ entries' = << >>
    /\ posted' = posted \o cancellations(entries)
    /\ last' = <<EvCall("shutdown", 0), EvTimerStop>>
                   \o [k \in 1..Len(cancellations(entries)) |->
                          LET t == cancellations(entries)[k]
                          IN  EvPost(t[2], t[3], t[4])]
    /\ UNCHANGED <<inflight, calls, steps, handled, result>>

(***************************************************************************)
(* Faulty variant of on_timer_tick: the tick is consumed without invoking  *)
(* the step of the head.                                                   *)
(***************************************************************************)
on_timer_tick_idle ==
    /\ timer_ticks(timer)
    /\ TotalSteps < MaxSteps
    /\ last' = <<EvCall("on_timer_tick", 0)>>
    /\ UNCHANGED <<entries, timer, shutdown_indicator, inflight, posted,
                   calls, steps, handled, result>>

(***************************************************************************)
(* on_timer_tick(): the callback of the timer, called while it runs.       *)
(***************************************************************************)
on_timer_tick ==
    /\ timer_ticks(timer)
    /\ TotalSteps < MaxSteps
    /\ IF empty
       THEN /\ UNCHANGED <<steps, inflight>>
            /\ last' = <<EvCall("on_timer_tick", 0)>>
       ELSE /\ start_step(entries[begin(entries)])
            /\ last' = <<EvCall("on_timer_tick", 0), EvStep(entries[begin(entries)].id)>>
    /\ UNCHANGED <<entries, timer, shutdown_indicator, posted, calls, handled, result>>

(***************************************************************************)
(* The io_service runs the oldest posted task, which calls a handler.      *)
(***************************************************************************)
run_posted ==
    /\ posted # << >>
    /\ LET task == Head(posted)
       IN  /\ handled' = [handled EXCEPT ![task[2]] = @ + 1]
           /\ last' = <<EvCall("posted", task[2]), task>>
    /\ posted' = Tail(posted)
    /\ UNCHANGED <<entries, timer, shutdown_indicator, inflight, calls, steps, result>>

(***************************************************************************)
(* A step that holds a continuation calls it with its result.              *)
(***************************************************************************)
step_completes ==
    \E entry \in BagToSet(inflight), error \in StepErrors, bytes \in BytesTransferred :
        Continuation(entry, error, bytes)

Next ==
    \/ \E index \in Index, buffer_size \in BufferSizes : push(index, buffer_size)
    \/ \E index \in Index : apply_ack(index)
    \/ \E index \in Index, pushed \in Index, buffer_size \in BufferSizes :
           apply_ack_handler_pushes(index, pushed, buffer_size)
    \/ shutdown
    \/ on_timer_tick
    \/ run_posted
    \/ step_completes

Spec == Init /\ [][Next]_vars

(***************************************************************************)
(* The io_service keeps running the tasks posted to it.                    *)
(***************************************************************************)
FairSpec == Spec /\ WF_vars(run_posted)

(***************************************************************************)
(* The timer keeps ticking while it is started and every step eventually   *)
(* calls its continuation.                                                 *)
(***************************************************************************)
RetrySpec == Spec /\ WF_vars(on_timer_tick) /\ WF_vars(step_completes)

(***************************************************************************)
(* Helpers of the properties.                                              *)
(***************************************************************************)
Pushed == 1..Len(calls)

InTable(id) == \E i \in DOMAIN entries : entries[i].id = id

InFlight(id) == \E e \in BagToSet(inflight) : e.id = id

Posted(id) == \E k \in 1..Len(posted) : posted[k][2] = id

(***************************************************************************)
(* C1: the handler passed to a push call is invoked exactly once: never    *)
(* twice, and once by the time nothing of the call is left in the table,   *)
(* in a step or in the io_service.                                         *)
(***************************************************************************)
HandlerExactlyOnce ==
    \A id \in Pushed :
        /\ handled[id] <= 1
        /\ (~InTable(id) /\ ~InFlight(id) /\ ~Posted(id)) => handled[id] = 1

(***************************************************************************)
(* C2: while shutdown has not been called, at most one entry of the table  *)
(* has a step whose continuation has not fired, and it is the entry of     *)
(* the smallest Index of the table.                                        *)
(***************************************************************************)
Active == {i \in DOMAIN entries : BagIn(entries[i], inflight)}

AtMostOneActive ==
    shutdown_indicator =>
        /\ Cardinality(Active) <= 1
        /\ \A i \in Active : \A j \in DOMAIN entries : i <= j

(***************************************************************************)
(* C3: when shutdown returns, size() is 0 and empty() is true, and a       *)
(* cancellation carrying the entry's own buffer_size has been posted for   *)
(* every entry the table held; every posted cancellation is eventually     *)
(* delivered to its handler with operation_aborted and that size.          *)
(***************************************************************************)
IsShutdownStep == last'[1] = EvCall("shutdown", 0)

Cancellation(entry) == EvHandler(entry.id, operation_aborted, entry.buffer_size)

Delivered(task) == last = <<EvCall("posted", task[2]), task>>

IsCancellation(task) == task[3] = operation_aborted

CancellationsPosted == {k \in 1..Len(posted) : IsCancellation(posted[k])}

ShutdownCompleteness ==
    /\ [][IsShutdownStep =>
            /\ size' = 0
            /\ empty'
            /\ \A i \in DOMAIN entries :
                   \E k \in (Len(posted) + 1)..Len(posted') :
                       posted'[k] = Cancellation(entries[i])]_vars
    /\ [][\A k \in CancellationsPosted :
              LET task == posted[k]
              IN  \/ k <= Len(posted') /\ posted'[k] = task
                  \/ k > 1 /\ posted'[k - 1] = task
                  \/ /\ k = 1
                     /\ last' = <<EvCall("posted", task[2]), task>>
                     /\ handled' = [handled EXCEPT ![task[2]] = @ + 1]]_vars
    /\ (CancellationsPosted # {}) ~> (CancellationsPosted = {})

ShutdownCancelsWitness ==
    /\ ~shutdown_indicator
    /\ \E id \in Pushed, n \in BufferSizes :
           /\ Delivered(EvHandler(id, operation_aborted, n))
           /\ handled[id] = 1
    /\ \E id \in Pushed : Posted(id)

(***************************************************************************)
(* C4: a push of an index that is in the table leaves the table, the       *)
(* entry of that index, the timer, the shutdown indicator and the steps    *)
(* in flight unchanged and calls no handler; it posts the new handler      *)
(* with already_started and size 0, which the io_service later delivers    *)
(* with those arguments; the step of the rejected call is never invoked.   *)
(***************************************************************************)
IsPushStep == Len(calls') = Len(calls) + 1 /\ last'[1][1] = "push"

Rejection(id) == EvHandler(id, already_started, 0)

DuplicatePushRejected ==
    /\ [][(IsPushStep /\ last'[1][2] \in DOMAIN entries) =>
            /\ UNCHANGED <<entries, timer, shutdown_indicator, inflight, steps, handled>>
            /\ posted' = Append(posted, Rejection(Len(calls')))
            /\ ~calls'[Len(calls')].inserted]_vars
    /\ [][\A id \in Pushed :
              /\ ~calls[id].inserted => (steps'[id] = 0 /\ ~InFlight(id)')
              /\ (posted # << >> /\ Head(posted) = Rejection(id) /\ posted' = Tail(posted)) =>
                     /\ last' = <<EvCall("posted", id), Rejection(id)>>
                     /\ handled' = [handled EXCEPT ![id] = @ + 1]]_vars
    /\ [][\A k \in 1..Len(posted) :
              \/ k <= Len(posted') /\ posted'[k] = posted[k]
              \/ k > 1 /\ posted'[k - 1] = posted[k]
              \/ k = 1 /\ posted' = Tail(posted)]_vars

DuplicatePushWitness ==
    /\ \E id \in Pushed :
           /\ ~calls[id].inserted
           /\ last = <<EvCall("posted", id), Rejection(id)>>
           /\ handled[id] = 1
    /\ \E i \in DOMAIN entries : BagIn(entries[i], inflight)
    /\ timer.running

(***************************************************************************)
(* C5: apply_ack of an index that is not in the table invokes no handler,  *)
(* starts no step and changes neither the table, the timer, the shutdown   *)
(* indicator nor the posted tasks.                                         *)
(***************************************************************************)
AckAbsentNoOp ==
    [][\A index \in Index :
          (last'[1] = EvCall("apply_ack", index) /\ index \notin DOMAIN entries) =>
              /\ last' = <<EvCall("apply_ack", index)>>
              /\ UNCHANGED <<entries, timer, shutdown_indicator, inflight, posted,
                             steps, handled>>]_vars

AckAbsentWitness ==
    /\ \E index \in Index : last = <<EvCall("apply_ack", index)>>
    /\ timer.running
    /\ ~empty
    /\ shutdown_indicator
    /\ \E id \in Pushed : calls[id].inserted /\ ~InTable(id) /\ handled[id] = 1

(***************************************************************************)
(* C6: apply_ack of the head erases the entry, stops the timer, invokes    *)
(* the step of the smallest remaining Index when entries remain, and only  *)
(* then invokes the handler of the acked entry with success and its        *)
(* buffer_size, nothing else happening in between.                         *)
(***************************************************************************)
IsSmallest(i, es) == i \in DOMAIN es /\ \A j \in DOMAIN es : i <= j

HeadPromotionOrder ==
    [][\A index \in Index :
          (last'[1] = EvCall("apply_ack", index) /\ IsSmallest(index, entries)) =>
              LET acked == entries[index]
                  done == EvHandler(acked.id, Success, acked.buffer_size)
              IN  /\ DOMAIN entries' = DOMAIN entries \ {index}
                  /\ ~timer'.running
                  /\ handled' = [handled EXCEPT ![acked.id] = @ + 1]
                  /\ IF DOMAIN entries' = {}
                     THEN /\ last' = <<EvCall("apply_ack", index), EvErase(index),
                                       EvTimerStop, done>>
                          /\ UNCHANGED <<steps, inflight>>
                     ELSE \E next \in DOMAIN entries' :
                              /\ IsSmallest(next, entries')
                              /\ last' = <<EvCall("apply_ack", index), EvErase(index),
                                           EvTimerStop, EvStep(entries'[next].id), done>>
                              /\ steps' = [steps EXCEPT ![entries'[next].id] = @ + 1]
                              /\ inflight' = inflight (+) SetToBag({entries'[next]})]_vars

HeadPromotionWitness ==
    /\ Len(last) = 5
    /\ last[1][1] = "apply_ack"
    /\ last[4][1] = "step"
    /\ last[5][3] = Success
    /\ size = 1
    /\ shutdown_indicator

(***************************************************************************)
(* C7: the timer is running exactly when the table is not empty, the last  *)
(* retry attempt of the head completed without error and shutdown has not  *)
(* been called.                                                            *)
(***************************************************************************)
HeadLastAttemptOk ==
    \E i \in DOMAIN entries : IsSmallest(i, entries) /\ result[entries[i].id] = Success

TimerRunsIffHeadOk ==
    timer.running <=> (~empty /\ HeadLastAttemptOk /\ shutdown_indicator)

(***************************************************************************)
(* C8: no entry of the table has had its handler invoked.                  *)
(***************************************************************************)
TableEntriesUnhandled ==
    \A i \in DOMAIN entries : handled[entries[i].id] = 0

(***************************************************************************)
(* C9: whenever the step of an entry is invoked, that entry is in the      *)
(* table under the smallest Index of the table at that instant; a push     *)
(* into a table that is not empty invokes no step.  When the handler that  *)
(* apply_ack calls pushes, the instant of a step of apply_ack is before    *)
(* that push and the instant of a step of that push is after it.           *)
(***************************************************************************)
HandlerPushes == last'[1][1] = "apply_ack, handler pushes"

TableAtStep(id) ==
    IF HandlerPushes /\ id # Len(calls')
    THEN erase(entries, last'[1][2])
    ELSE entries'

OnlyHeadStepped ==
    [][/\ \A id \in Ids :
              (steps'[id] > steps[id] \/ \E k \in 1..Len(last') : last'[k] = EvStep(id)) =>
                  \E i \in DOMAIN TableAtStep(id) :
                      /\ IsSmallest(i, TableAtStep(id))
                      /\ TableAtStep(id)[i].id = id
                      /\ steps'[id] = steps[id] + 1
       /\ (IsPushStep /\ ~empty) => UNCHANGED <<steps, inflight>>]_vars

OnlyHeadSteppedWitness ==
    /\ size = 2
    /\ last[1] = EvCall("on_timer_tick", 0)
    /\ \E i \in DOMAIN entries :
           /\ IsSmallest(i, entries)
           /\ last[2] = EvStep(entries[i].id)
           /\ entries[i].id = 2

(***************************************************************************)
(* C10: once shutdown has been called the timer is stopped in every        *)
(* state, and a step continuation, whatever it reports, changes neither    *)
(* the timer nor the table.                                                *)
(***************************************************************************)
IsContinuationStep == last'[1][1] = "continuation"

TimerStoppedAfterShutdown ==
    [][/\ ~shutdown_indicator' => ~timer'.running
       /\ ~shutdown_indicator => shutdown_indicator' = FALSE
       /\ (IsContinuationStep /\ ~shutdown_indicator) =>
              UNCHANGED <<entries, timer>>]_vars

ContinuationAfterShutdownWitness ==
    /\ ~shutdown_indicator
    /\ Len(last) = 2
    /\ last[1][1] = "continuation"
    /\ last[2][3] = Success
    /\ steps[last[1][2]] = 1
    /\ ~InTable(last[1][2])
    /\ ~empty

(***************************************************************************)
(* C11: a continuation that reports an error while the queue is alive      *)
(* only invokes the handler of its entry with that error and byte count:   *)
(* the table, the timer, the posted tasks and the other steps in flight    *)
(* are unchanged and no step is invoked; and as long as an entry whose     *)
(* attempt failed stays in the table, no entry of a larger Index has its   *)
(* step invoked.                                                           *)
(***************************************************************************)
Errored(i) == i \in DOMAIN entries /\ result[entries[i].id] = transport_error

ErrorPathOnlyHandles ==
    [][/\ \A id \in Ids, bytes \in BytesTransferred :
              (shutdown_indicator /\
               last' = <<EvCall("continuation", id), EvHandler(id, transport_error, bytes)>>) =>
                  /\ UNCHANGED <<entries, timer, shutdown_indicator, posted, steps>>
                  /\ handled' = [handled EXCEPT ![id] = @ + 1]
                  /\ \E e \in BagToSet(inflight) :
                         e.id = id /\ inflight' = inflight (-) SetToBag({e})
       /\ \A i \in DOMAIN entries :
              (Errored(i) /\ i \in DOMAIN entries' /\ entries'[i] = entries[i]) =>
                  \A j \in DOMAIN entries' :
                      j > i => steps'[entries'[j].id] = steps[entries'[j].id]]_vars

ErrorPathWitness ==
    /\ shutdown_indicator
    /\ size = 2
    /\ \E i \in DOMAIN entries :
           /\ IsSmallest(i, entries)
           /\ Errored(i)
           /\ handled[entries[i].id] = 1
           /\ \E bytes \in BytesTransferred :
                  last = <<EvCall("continuation", entries[i].id),
                           EvHandler(entries[i].id, transport_error, bytes)>>
    /\ \E j \in DOMAIN entries : ~IsSmallest(j, entries) /\ steps[entries[j].id] = 0
    /\ ~timer.running

(***************************************************************************)
(* C12: while the queue is alive a successful continuation sets the timer  *)
(* period to the period of its entry and starts the timer, and a tick on a *)
(* non-empty table invokes the step of the current head; so, with fair     *)
(* ticks and fair completions, a head whose step is in flight has its step *)
(* invoked again by a tick unless the head is acked, the queue is shut     *)
(* down or an attempt fails.                                               *)
(***************************************************************************)
HeadInFlight == ~empty /\ BagIn(entries[begin(entries)], inflight)

TickSteppedHead == Len(last) = 2 /\ last[1] = EvCall("on_timer_tick", 0)

HeadAcked ==
    /\ last # << >>
    /\ last[1][1] \in {"apply_ack", "apply_ack, handler pushes"}
    /\ \E k \in DOMAIN last : last[k] = EvTimerStop

AttemptFailed == Len(last) = 2 /\ last[1][1] = "continuation" /\ last[2][1] = "handler"

Rank(i, es) == Cardinality({j \in DOMAIN es : j <= i})

NoHandlerIn(events) == \A k \in DOMAIN events : events[k][1] # "handler"

ShutdownDefersInOrder ==
    /\ [][IsShutdownStep =>
            /\ handled' = handled
            /\ NoHandlerIn(last')
            /\ Len(posted') = Len(posted) + size
            /\ SubSeq(posted', 1, Len(posted)) = posted
            /\ \A i \in DOMAIN entries :
                   /\ posted'[Len(posted) + Rank(i, entries)] = Cancellation(entries[i])
                   /\ last'[2 + Rank(i, entries)] =
                          EvPost(entries[i].id, operation_aborted, entries[i].buffer_size)]_vars
    /\ [][last'[1][1] = "posted" =>
            /\ posted # << >>
            /\ last' = <<EvCall("posted", Head(posted)[2]), Head(posted)>>
            /\ posted' = Tail(posted)]_vars

ShutdownDefersWitness ==
    /\ Len(last) = 4
    /\ last[1] = EvCall("shutdown", 0)
    /\ last[3][1] = "post" /\ last[4][1] = "post"
    /\ Len(posted) >= 2
    /\ posted[Len(posted) - 1][2] > posted[Len(posted)][2]
    /\ \A id \in Pushed : handled[id] = 0

(***************************************************************************)
(* C14: the entry whose step a timer tick invokes is the entry whose       *)
(* successful continuation started the timer: a tick that comes right      *)
(* after the continuation that started the timer steps the entry of that   *)
(* continuation.                                                           *)
(***************************************************************************)
ArmedBy(id) ==
    /\ Len(last) = 2
    /\ last[1] = EvCall("continuation", id)
    /\ last[2][1] = "timer.start"

TickStepsArmingEntry ==
    [][\A id \in Ids :
          (ArmedBy(id) /\ Len(last') = 2 /\ last'[1] = EvCall("on_timer_tick", 0)) =>
              last'[2] = EvStep(id)]_vars

(***************************************************************************)
(* C15: while a step of an entry has not called its continuation, no       *)
(* further step is invoked for that entry, and a handler is called with    *)
(* operation_aborted only after shutdown has been called.                  *)
(***************************************************************************)
StuckStepNotRetried ==
    [][/\ \A e \in BagToSet(inflight) : steps'[e.id] = steps[e.id]
       /\ \A k \in DOMAIN last' :
              (last'[k][1] = "handler" /\ last'[k][3] = operation_aborted) =>
                  ~shutdown_indicator]_vars

(***************************************************************************)
(* C16: apply_ack of an index that is in the table but is not its smallest *)
(* erases that entry alone and then calls its handler with Success and     *)
(* its buffer_size; the timer is neither stopped nor started, no step is   *)
(* invoked, and the other entries, the steps in flight and the posted      *)
(* tasks are unchanged.                                                    *)
(***************************************************************************)
AckNonHeadFrame ==
    [][\A index \in Index :
          (/\ last'[1] = EvCall("apply_ack", index)
           /\ index \in DOMAIN entries
           /\ ~IsSmallest(index, entries)) =>
              LET acked == entries[index]
              IN  /\ DOMAIN entries' = DOMAIN entries \ {index}
                  /\ \A j \in DOMAIN entries' : entries'[j] = entries[j]
                  /\ last' = <<EvCall("apply_ack", index), EvErase(index),
                               EvHandler(acked.id, Success, acked.buffer_size)>>
                  /\ handled' = [handled EXCEPT ![acked.id] = @ + 1]
                  /\ UNCHANGED <<timer, steps, inflight, posted, shutdown_indicator>>]_vars

AckNonHeadWitness ==
    /\ Len(last) = 3
    /\ last[1][1] = "apply_ack"
    /\ last[3][3] = Success
    /\ \E i \in DOMAIN entries : i < last[1][2] /\ InFlight(entries[i].id)
    /\ timer.running
    /\ shutdown_indicator

ReentrantPushSeesErase ==
    [][\A index, pushed \in Index :
          \A k \in DOMAIN last' :
              (/\ last'[1] = EvCall("apply_ack, handler pushes", index)
               /\ last'[k] = EvCall("push", pushed)) =>
                  LET acked == entries[index]
                      rest == erase(entries, index)
                      id == Len(calls) + 1
                  IN  /\ index \in DOMAIN entries
                      /\ last'[2] = EvErase(index)
                      /\ last'[k - 1] = EvHandler(acked.id, Success, acked.buffer_size)
                      /\ handled' = [handled EXCEPT ![acked.id] = @ + 1]
                      /\ IF pushed \in DOMAIN rest
                         THEN /\ entries' = rest
                              /\ posted' = Append(posted, Rejection(id))
                              /\ calls' = Append(calls, [inserted |-> FALSE])
                              /\ steps'[id] = 0
                         ELSE /\ DOMAIN entries' = DOMAIN rest \cup {pushed}
                              /\ \A j \in DOMAIN rest : entries'[j] = rest[j]
                              /\ entries'[pushed].id = id
                              /\ calls' = Append(calls, [inserted |-> TRUE])
                              /\ posted' = posted
                              /\ IF DOMAIN rest = {}
                                 THEN /\ steps'[id] = 1
                                      /\ inflight' = inflight (+) SetToBag({entries'[pushed]})
                                      /\ last'[Len(last')] = EvStep(id)
                                 ELSE /\ steps'[id] = 0
                                      /\ ~InFlight(id)']_vars

ReentrantPushWitness ==
    /\ Len(last) = 7
    /\ \E index \in DOMAIN entries :
           /\ last[1] = EvCall("apply_ack, handler pushes", index)
           /\ last[5] = EvCall("push", index)
           /\ last[7] = EvStep(entries[index].id)
           /\ last[4][1] = "handler"
           /\ last[4][2] # entries[index].id
           /\ handled[last[4][2]] = 1
           /\ handled[entries[index].id] = 0
           /\ InFlight(entries[index].id)
    /\ size = 1

(***************************************************************************)
(* C19: a handler is called with Success only by apply_ack, for an entry   *)
(* that apply_ack found in the table: neither a continuation, before or    *)
(* after shutdown, nor a posted cancellation or rejection calls a handler  *)
(* with Success.                                                           *)
(***************************************************************************)
SuccessOnlyByAck ==
    [][\A k \in DOMAIN last' :
          (last'[k][1] = "handler" /\ last'[k][3] = Success) =>
              /\ last'[1][1] \in {"apply_ack", "apply_ack, handler pushes"}
              /\ last'[1][2] \in DOMAIN entries
              /\ last'[k][2] = entries[last'[1][2]].id]_vars

====
